---- MODULE Spec2Model ----
(***************************************************************************)
(* Model of nodes/mask_rcnn_node.py: the MaskRCNNNode frame mailbox        *)
(* (_last_msg guarded by _msg_lock), the subscriber callback               *)
(* _image_callback, the scheduler loop run and the result builder          *)
(* _build_result_msg.                                                      *)
(*                                                                         *)
(* Two threads take steps: the subscriber thread (callback_pc) and the     *)
(* main thread executing run (run_pc).  Every statement of the two         *)
(* handlers that touches shared state is one atomic step.                  *)
(***************************************************************************)
EXTENDS Integers, Sequences, FiniteSets, TLC

(***************************************************************************)
(* Bounds of the model.                                                    *)
(***************************************************************************)
\* number of camera frames the transport delivers in one behaviour
MaxFrames == 4
\* largest instance count N of a Detection Set returned by the model
MaxInstances == 2
\* height and width of a frame (and of the masks of its Detection Set)
ImgH == 2
ImgW == 2

(***************************************************************************)
(* Configuration read in __init__.                                         *)
(***************************************************************************)
\* self._class_names = rospy.get_param('~class_names'); index 0 = background
class_names == <<"BG", "person", "car">>

\* Python's None, and an object reference held by an attribute or a local.
\* An optional value is a sequence of length 0 (None) or 1.
None == <<>>
Ref(x) == <<x>>
Deref(r) == r[1]

\* sensor_msgs/Image as the node uses it: the header handed on to the result.
\* Headers are the arrival numbers 1..MaxFrames of the frames.
Headers == 1..MaxFrames
Frame(h) == [header |-> h]

(***************************************************************************)
(* Python list indexing, as used by self._class_names[class_id]: indexes   *)
(* -len..len-1 are valid, negative ones count from the end, any other      *)
(* raises IndexError.                                                      *)
(***************************************************************************)
IndexInRange(list, k) == (0 - Len(list)) <= k /\ k <= Len(list) - 1
ListItem(list, k) == IF k >= 0 THEN list[k + 1] ELSE list[Len(list) + k + 1]

(***************************************************************************)
(* Detection Sets: the dictionary results[0] returned by model.detect.     *)
(*   rois      N x <<y1, x1, y2, x2>>                                      *)
(*   class_ids N integers                                                  *)
(*   scores    N scores (in percent)                                       *)
(*   masks     booleans of shape (ImgH, ImgW, N): masks[r][c][i]           *)
(***************************************************************************)
NumInstances(det) == Len(det.rois)

SeqsUpTo(S, n) == UNION {[1..k -> S] : k \in 0..n}

\* the mask of instance i used by the scheduler model: a checkerboard that
\* shifts with i, so every mask has foreground and background pixels.
PatternMasks(n) ==
    [r \in 1..ImgH |-> [c \in 1..ImgW |-> [i \in 1..n |-> (r + c + i) % 2 = 0]]]

MakeDetection(ids) ==
    [rois      |-> [i \in 1..Len(ids) |-> <<0, i - 1, ImgH, ImgW>>],
     class_ids |-> ids,
     scores    |-> [i \in 1..Len(ids) |-> 100 - i],
     masks     |-> PatternMasks(Len(ids))]

\* class ids of the Detection Sets the scheduler model draws from: an index
\* into the table, and the first index past its end.
SchedClassIds == {1, Len(class_names)}

\* what model.detect may return to the scheduler: every sequence of up to
\* MaxInstances such class ids, so a bad id occurs at every index
DetectionSets == {MakeDetection(ids) : ids \in SeqsUpTo(SchedClassIds, MaxInstances)}

(***************************************************************************)
(* _build_result_msg                                                       *)
(***************************************************************************)
EmptyResult(header) ==
    [header      |-> header,
     boxes       |-> <<>>,
     class_ids   |-> <<>>,
     class_names |-> <<>>,
     scores      |-> <<>>,
     masks       |-> <<>>]

\* mutant: the row and column coordinates of the roi are taken in the wrong
\* order (the roi read as <<x1, y1, x2, y2>>)
RegionOfInterestSwapped(roi) ==
    [x_offset |-> roi[1],
     y_offset |-> roi[2],
     height   |-> roi[4] - roi[2],
     width    |-> roi[3] - roi[1]]

\* lines 116-120: the RegionOfInterest of one roi <<y1, x1, y2, x2>>
RegionOfInterest(roi) ==
    [x_offset |-> roi[2],
     y_offset |-> roi[1],
     height   |-> roi[3] - roi[1],
     width    |-> roi[4] - roi[2]]

\* mutant: the mask is flattened column by column
MaskDataColumnMajor(masks, class_id, i) ==
    LET H == Len(masks)
        W == Len(masks[1])
    IN  [k \in 1..(H * W) |->
            IF masks[((k - 1) % H) + 1][((k - 1) \div H) + 1][i]
            THEN class_id
            ELSE 0]

\* mutant: the background pixels, not the foreground ones, get the class id
MaskDataInverted(masks, class_id, i) ==
    LET H == Len(masks)
        W == Len(masks[1])
    IN  [k \in 1..(H * W) |->
            IF masks[((k - 1) \div W) + 1][((k - 1) % W) + 1][i]
            THEN 0
            ELSE class_id]

\* lines 133-136: the flattened Int64MultiArray data of instance i
MaskData(masks, class_id, i) ==
    LET H == Len(masks)
        W == Len(masks[1])
    IN  [k \in 1..(H * W) |->
            IF masks[((k - 1) \div W) + 1][((k - 1) % W) + 1][i]
            THEN class_id
            ELSE 0]

\* mutant: the IndexError of line 126 is swallowed and the loop goes on with
\* the next instance, leaving the entry of instance i half built
BuildInstanceSwallow(acc, result, i) ==
    LET m        == acc.result_msg
        class_id == result.class_ids[i]
        m1       == [m EXCEPT !.boxes = Append(@, RegionOfInterest(result.rois[i])),
                              !.class_ids = Append(@, class_id)]
    IN  IF ~IndexInRange(class_names, class_id)
        THEN [raised |-> FALSE, result_msg |-> m1]
        ELSE [raised |-> FALSE,
              result_msg |->
                [m1 EXCEPT !.class_names = Append(@, ListItem(class_names, class_id)),
                           !.scores = Append(@, result.scores[i]),
                           !.masks = Append(@, MaskData(result.masks, class_id, i))]]

\* one iteration of the for loop (lines 115-137) on the state acc =
\* [raised, result_msg]; an IndexError at line 126 leaves the loop with the
\* box and the class id of instance i already appended.
BuildInstance(acc, result, i) ==
    IF acc.raised THEN acc
    ELSE
      LET m        == acc.result_msg
          class_id == result.class_ids[i]
          m1       == [m EXCEPT !.boxes = Append(@, RegionOfInterest(result.rois[i])),
                                !.class_ids = Append(@, class_id)]
      IN  IF ~IndexInRange(class_names, class_id)
          THEN [raised |-> TRUE, result_msg |-> m1]
          ELSE [raised |-> FALSE,
                result_msg |->
                  [m1 EXCEPT !.class_names = Append(@, ListItem(class_names, class_id)),
                             !.scores = Append(@, result.scores[i]),
                             !.masks = Append(@, MaskData(result.masks, class_id, i))]]

RECURSIVE BuildLoop(_, _, _)
BuildLoop(acc, result, i) ==
    IF i > NumInstances(result) THEN acc
    ELSE BuildLoop(BuildInstance(acc, result, i), result, i + 1)

\* the whole function: raised = TRUE when it left by IndexError (then
\* result_msg is the partly built record the exception abandoned)
build_result_msg(m, result) ==
    BuildLoop([raised |-> FALSE, result_msg |-> EmptyResult(m.header)], result, 1)

(***************************************************************************)
(* State                                                                   *)
(***************************************************************************)
VARIABLES
    last_msg,          \* self._last_msg: None or a reference to a frame
    msg_lock,          \* self._msg_lock: "free", or the thread holding it
    visualization,     \* self._visualization
    shutdown,          \* rospy.is_shutdown()
    callback_pc,       \* position of the subscriber thread in _image_callback
    callback_msg,      \* the argument msg of _image_callback
    run_pc,            \* position of the main thread in run
    msg,               \* run's local msg
    result,            \* run's local result (None before the first detect)
    result_msg,        \* run's local result_msg
    exception,         \* the exception that ended run, "none" while it runs
    result_pub,        \* the last message published on .../result
    vis_pub,           \* header of the last image published on .../visualization
    \* history variables, read by the properties only
    arrived,           \* number of frames delivered to the callback so far
    deposited,         \* headers stored into last_msg, in order
    unclaimed,         \* headers stored since the slot was last cleared
    superseded,        \* headers stored and then followed by a later store
                       \* before any claim
    dropped,           \* headers whose callback failed to take the lock
    claim_base,        \* Len(deposited) when the current claim took the lock
    claimed,           \* headers returned by claims, in order
    in_flight,         \* headers of the frames inside model.detect
    inferred,          \* headers passed to model.detect, in order
    published,         \* <<topic, header>> of every publish, in order
    tick_infer,        \* calls of model.detect in the current loop iteration
    tick_results,      \* publishes on .../result in the current iteration
    skipped            \* TRUE while the current iteration failed to take the lock

ghost == <<arrived, deposited, unclaimed, superseded, dropped, claim_base,
           claimed, in_flight, inferred, published, tick_infer, tick_results,
           skipped>>
prog == <<last_msg, msg_lock, visualization, shutdown, callback_pc,
          callback_msg, run_pc, msg, result, result_msg, exception,
          result_pub, vis_pub>>
vars == <<prog, ghost>>

\* the parts of the state each thread leaves alone
callback_locals == <<callback_pc, callback_msg>>
run_locals == <<msg, result, result_msg>>
outputs == <<result_pub, vis_pub, published>>
config == <<visualization>>

Init ==
    /\ last_msg = None
    /\ msg_lock = "free"
    /\ visualization \in BOOLEAN
    /\ shutdown = FALSE
    /\ callback_pc = "idle"
    /\ callback_msg = None
    /\ run_pc = "loop"
    /\ msg = None
    /\ result = None
    /\ result_msg = None
    /\ exception = "none"
    /\ result_pub = None
    /\ vis_pub = None
    /\ arrived = 0
    /\ deposited = <<>>
    /\ unclaimed = <<>>
    /\ superseded = {}
    /\ dropped = {}
    /\ claim_base = 0
    /\ claimed = <<>>
    /\ in_flight = {}
    /\ inferred = <<>>
    /\ published = <<>>
    /\ tick_infer = 0
    /\ tick_results = 0
    /\ skipped = FALSE

(***************************************************************************)
(* _image_callback, run on the subscriber thread once per arriving frame   *)
(***************************************************************************)
\* line 159: the transport invokes the callback with the next frame
ImageArrives ==
    /\ callback_pc = "idle"
    /\ arrived < MaxFrames
    /\ arrived' = arrived + 1
    /\ callback_msg' = Ref(Frame(arrived + 1))
    /\ callback_pc' = "acquire"
    /\ UNCHANGED <<last_msg, msg_lock, config, shutdown, run_pc, run_locals,
                   exception, outputs, deposited, unclaimed, superseded, dropped,
                   claim_base, claimed, in_flight, inferred, tick_infer,
                   tick_results, skipped>>

\* mutant: the callback goes on whether or not it got the lock
CallbackAcquiredIgnoringLock == TRUE

\* line 161: the value of self._msg_lock.acquire(False)
CallbackAcquired == msg_lock = "free"

\* line 161: if self._msg_lock.acquire(False); on failure the callback returns
CallbackAcquire ==
    /\ callback_pc = "acquire"
    /\ IF CallbackAcquired
       THEN /\ msg_lock' = "callback"
            /\ callback_pc' = "store"
            /\ UNCHANGED <<callback_msg, dropped>>
       ELSE /\ callback_pc' = "idle"
            /\ callback_msg' = None
            /\ dropped' = dropped \cup {Deref(callback_msg).header}
            /\ UNCHANGED msg_lock
    /\ UNCHANGED <<last_msg, config, shutdown, run_pc, run_locals, exception,
                   outputs, arrived, deposited, unclaimed, superseded,
                   claim_base, claimed, in_flight, inferred, tick_infer,
                   tick_results, skipped>>

\* mutant: a frame already waiting is kept and the new one discarded
StoreSlotKeepFirst(old, new) == IF old = None THEN new ELSE old

\* mutant: the new frame is queued behind the frames already waiting
StoreSlotQueue(old, new) == old \o new

\* line 162: the value self._last_msg takes in self._last_msg = msg
StoreSlot(old, new) == new

\* line 162: self._last_msg = msg
CallbackStore ==
    /\ callback_pc = "store"
    /\ last_msg' = StoreSlot(last_msg, callback_msg)
    /\ deposited' = Append(deposited, Deref(callback_msg).header)
    /\ superseded' = superseded \cup {unclaimed[i] : i \in 1..Len(unclaimed)}
    /\ unclaimed' = Append(unclaimed, Deref(callback_msg).header)
    /\ callback_pc' = "release"
    /\ UNCHANGED <<msg_lock, config, shutdown, callback_msg, run_pc, run_locals,
                   exception, outputs, arrived, dropped, claim_base, claimed,
                   in_flight, inferred, tick_infer, tick_results, skipped>>

\* mutant: the callback returns without releasing the lock
CallbackReleaseForgotten ==
    /\ callback_pc = "release"
    /\ callback_pc' = "idle"
    /\ callback_msg' = None
    /\ UNCHANGED <<last_msg, msg_lock, config, shutdown, run_pc, run_locals,
                   exception, outputs, ghost>>

\* line 163: self._msg_lock.release(), and the callback returns
CallbackRelease ==
    /\ callback_pc = "release"
    /\ msg_lock' = "free"
    /\ callback_pc' = "idle"
    /\ callback_msg' = None
    /\ UNCHANGED <<last_msg, config, shutdown, run_pc, run_locals, exception,
                   outputs, ghost>>

(***************************************************************************)
(* run, on the main thread                                                 *)
(***************************************************************************)
\* mutant: the loop condition does not look at the shutdown flag (while True)
LoopTestIgnoringShutdown ==
    /\ run_pc = "loop"
    /\ run_pc' = "acquire"
    /\ tick_infer' = 0
    /\ tick_results' = 0
    /\ skipped' = FALSE
    /\ UNCHANGED <<last_msg, msg_lock, config, shutdown, callback_locals,
                   run_locals, exception, outputs, arrived, deposited, unclaimed,
                   superseded, dropped, claim_base, claimed, in_flight, inferred>>

\* line 84: while not rospy.is_shutdown()
LoopTest ==
    /\ run_pc = "loop"
    /\ run_pc' = IF shutdown THEN "done" ELSE "acquire"
    /\ tick_infer' = 0
    /\ tick_results' = 0
    /\ skipped' = FALSE
    /\ UNCHANGED <<last_msg, msg_lock, config, shutdown, callback_locals,
                   run_locals, exception, outputs, arrived, deposited, unclaimed,
                   superseded, dropped, claim_base, claimed, in_flight, inferred>>

\* mutant: run goes on to read and clear whether or not it got the lock
RunAcquiredIgnoringLock == TRUE

\* line 85: the value of self._msg_lock.acquire(False)
RunAcquired == msg_lock = "free"

\* line 85: if self._msg_lock.acquire(False) ... else (line 89)
RunAcquire ==
    /\ run_pc = "acquire"
    /\ IF RunAcquired
       THEN /\ msg_lock' = "run"
            /\ run_pc' = "read"
            /\ claim_base' = Len(deposited)
            /\ UNCHANGED skipped
       ELSE /\ run_pc' = "skip_sleep"
            /\ skipped' = TRUE
            /\ UNCHANGED <<msg_lock, claim_base>>
    /\ UNCHANGED <<last_msg, config, shutdown, callback_locals, run_locals,
                   exception, outputs, arrived, deposited, unclaimed, superseded,
                   dropped, claimed, in_flight, inferred, tick_infer,
                   tick_results>>

\* line 86: msg = self._last_msg
RunRead ==
    /\ run_pc = "read"
    /\ msg' = last_msg
    /\ claimed' = IF last_msg = None THEN claimed
                  ELSE Append(claimed, Deref(last_msg).header)
    /\ run_pc' = "clear"
    /\ UNCHANGED <<last_msg, msg_lock, config, shutdown, callback_locals, result,
                   result_msg, exception, outputs, arrived, deposited, unclaimed,
                   superseded, dropped, claim_base, in_flight, inferred,
                   tick_infer, tick_results, skipped>>

\* mutant: the slot is not cleared after the read
ClearedSlotKept == last_msg

\* line 87: the value self._last_msg takes in self._last_msg = None
ClearedSlot == None

\* line 87: self._last_msg = None
RunClear ==
    /\ run_pc = "clear"
    /\ last_msg' = ClearedSlot
    /\ unclaimed' = <<>>
    /\ run_pc' = "release"
    /\ UNCHANGED <<msg_lock, config, shutdown, callback_locals, run_locals,
                   exception, outputs, arrived, deposited, superseded, dropped,
                   claim_base, claimed, in_flight, inferred, tick_infer,
                   tick_results, skipped>>

\* mutant: run keeps the lock while it goes on to process the frame
RunReleaseForgotten ==
    /\ run_pc = "release"
    /\ run_pc' = "test_msg"
    /\ UNCHANGED <<last_msg, msg_lock, config, shutdown, callback_locals,
                   run_locals, exception, outputs, ghost>>

\* line 88: self._msg_lock.release()
RunRelease ==
    /\ run_pc = "release"
    /\ msg_lock' = "free"
    /\ run_pc' = "test_msg"
    /\ UNCHANGED <<last_msg, config, shutdown, callback_locals, run_locals,
                   exception, outputs, ghost>>

\* mutant: the continue is missing, run falls through to line 93
SkipSleepFallThrough ==
    /\ run_pc = "skip_sleep"
    /\ run_pc' = "test_msg"
    /\ UNCHANGED <<last_msg, msg_lock, config, shutdown, callback_locals,
                   run_locals, exception, outputs, ghost>>

\* lines 90-91: rate.sleep(); continue
SkipSleep ==
    /\ run_pc = "skip_sleep"
    /\ run_pc' = "loop"
    /\ UNCHANGED <<last_msg, msg_lock, config, shutdown, callback_locals,
                   run_locals, exception, outputs, ghost>>

\* line 93: if msg is not None
TestMsg ==
    /\ run_pc = "test_msg"
    /\ run_pc' = IF msg # None THEN "detect" ELSE "sleep"
    /\ UNCHANGED <<last_msg, msg_lock, config, shutdown, callback_locals,
                   run_locals, exception, outputs, ghost>>

\* mutant: the inference is handed to a worker and run does not wait for it
DetectCallAsync ==
    /\ run_pc = "detect"
    /\ in_flight' = in_flight \cup {Deref(msg).header}
    /\ inferred' = Append(inferred, Deref(msg).header)
    /\ tick_infer' = tick_infer + 1
    /\ run_pc' = "sleep"
    /\ UNCHANGED <<last_msg, msg_lock, config, shutdown, callback_locals,
                   run_locals, exception, outputs, arrived, deposited, unclaimed,
                   superseded, dropped, claim_base, claimed, tick_results,
                   skipped>>

\* lines 94-97: the image is converted and self._model.detect is entered;
\* the call is synchronous, run waits inside it
DetectCall ==
    /\ run_pc = "detect"
    /\ in_flight' = in_flight \cup {Deref(msg).header}
    /\ inferred' = Append(inferred, Deref(msg).header)
    /\ tick_infer' = tick_infer + 1
    /\ run_pc' = "detecting"
    /\ UNCHANGED <<last_msg, msg_lock, config, shutdown, callback_locals,
                   run_locals, exception, outputs, arrived, deposited, unclaimed,
                   superseded, dropped, claim_base, claimed, tick_results,
                   skipped>>

\* lines 97-98: self._model.detect returns; result = results[0]
DetectReturn ==
    /\ run_pc = "detecting"
    /\ \E det \in DetectionSets : result' = Ref(det)
    /\ in_flight' = in_flight \ {Deref(msg).header}
    /\ run_pc' = "build"
    /\ UNCHANGED <<last_msg, msg_lock, config, shutdown, callback_locals, msg,
                   result_msg, exception, outputs, arrived, deposited, unclaimed,
                   superseded, dropped, claim_base, claimed, inferred,
                   tick_infer, tick_results, skipped>>

\* mutant: the builder is handed self._last_msg, the frame now waiting in the
\* mailbox, when there is one, instead of the local msg
BuildResultFromMailbox ==
    /\ run_pc = "build"
    /\ LET m     == IF last_msg # None THEN last_msg ELSE msg
           built == build_result_msg(Deref(m), Deref(result))
       IN  IF built.raised
           THEN /\ exception' = "IndexError"
                /\ run_pc' = "raised"
                /\ UNCHANGED result_msg
           ELSE /\ result_msg' = Ref(built.result_msg)
                /\ run_pc' = "publish_result"
                /\ UNCHANGED exception
    /\ UNCHANGED <<last_msg, msg_lock, config, shutdown, callback_locals, msg,
                   result, outputs, ghost>>

\* line 99: result_msg = self._build_result_msg(msg, result); run has no
\* try/except, so an IndexError raised by the builder leaves run
BuildResult ==
    /\ run_pc = "build"
    /\ LET built == build_result_msg(Deref(msg), Deref(result))
       IN  IF built.raised
           THEN /\ exception' = "IndexError"
                /\ run_pc' = "raised"
                /\ UNCHANGED result_msg
           ELSE /\ result_msg' = Ref(built.result_msg)
                /\ run_pc' = "publish_result"
                /\ UNCHANGED exception
    /\ UNCHANGED <<last_msg, msg_lock, config, shutdown, callback_locals, msg,
                   result, outputs, ghost>>

\* line 100: self._result_pub.publish(result_msg); the transport either takes
\* the message or raises, and an exception leaves run
PublishResult ==
    /\ run_pc = "publish_result"
    /\ \E ok \in BOOLEAN :
         IF ok
         THEN /\ result_pub' = result_msg
              /\ published' = Append(published, <<"result", Deref(result_msg).header>>)
              /\ tick_results' = tick_results + 1
              /\ run_pc' = "test_visualization"
              /\ UNCHANGED exception
         ELSE /\ exception' = "PublishError"
              /\ run_pc' = "raised"
              /\ UNCHANGED <<result_pub, published, tick_results>>
    /\ UNCHANGED <<last_msg, msg_lock, config, shutdown, callback_locals,
                   run_locals, vis_pub, arrived, deposited, unclaimed, superseded,
                   dropped, claim_base, claimed, in_flight, inferred, tick_infer,
                   skipped>>

\* mutant: the visualization is rendered and published whatever the flag
TestVisualizationAlways ==
    /\ run_pc = "test_visualization"
    /\ run_pc' = "visualize"
    /\ UNCHANGED <<last_msg, msg_lock, config, shutdown, callback_locals,
                   run_locals, exception, outputs, ghost>>

\* line 103: if self._visualization
TestVisualization ==
    /\ run_pc = "test_visualization"
    /\ run_pc' = IF visualization THEN "visualize" ELSE "sleep"
    /\ UNCHANGED <<last_msg, msg_lock, config, shutdown, callback_locals,
                   run_locals, exception, outputs, ghost>>

\* lines 104-107: the annotated image of this frame is rendered and converted
Visualize ==
    /\ run_pc = "visualize"
    /\ run_pc' = "publish_vis"
    /\ UNCHANGED <<last_msg, msg_lock, config, shutdown, callback_locals,
                   run_locals, exception, outputs, ghost>>

\* line 108: self._vis_pub.publish(image_msg)
PublishVis ==
    /\ run_pc = "publish_vis"
    /\ \E ok \in BOOLEAN :
         IF ok
         THEN /\ vis_pub' = Ref(Deref(msg).header)
              /\ published' = Append(published, <<"visualization", Deref(msg).header>>)
              /\ run_pc' = "sleep"
              /\ UNCHANGED exception
         ELSE /\ exception' = "PublishError"
              /\ run_pc' = "raised"
              /\ UNCHANGED <<vis_pub, published>>
    /\ UNCHANGED <<last_msg, msg_lock, config, shutdown, callback_locals,
                   run_locals, result_pub, arrived, deposited, unclaimed,
                   superseded, dropped, claim_base, claimed, in_flight, inferred,
                   tick_infer, tick_results, skipped>>

\* line 110: rate.sleep() at the end of the iteration
RateSleep ==
    /\ run_pc = "sleep"
    /\ run_pc' = "loop"
    /\ UNCHANGED <<last_msg, msg_lock, config, shutdown, callback_locals,
                   run_locals, exception, outputs, ghost>>

\* the external shutdown signal read by rospy.is_shutdown() (line 84)
Shutdown ==
    /\ ~shutdown
    /\ shutdown' = TRUE
    /\ UNCHANGED <<last_msg, msg_lock, config, callback_locals, run_pc,
                   run_locals, exception, outputs, ghost>>

Next ==
    \/ ImageArrives
    \/ CallbackAcquire
    \/ CallbackStore
    \/ CallbackRelease
    \/ LoopTest
    \/ RunAcquire
    \/ RunRead
    \/ RunClear
    \/ RunRelease
    \/ SkipSleep
    \/ TestMsg
    \/ DetectCall
    \/ DetectReturn
    \/ BuildResult
    \/ PublishResult
    \/ TestVisualization
    \/ Visualize
    \/ PublishVis
    \/ RateSleep
    \/ Shutdown

Spec == Init /\ [][Next]_vars

(***************************************************************************)
(* Scheduling: the main thread and the subscriber thread are operating     *)
(* system threads, so each of them keeps taking its next step while it has *)
(* one: acquire(False) never waits, rate.sleep() returns, and model.detect *)
(* is taken to return.  The arrival of frames and the shutdown signal are  *)
(* the environment's and are not forced.                                   *)
(***************************************************************************)
RunNext ==
    \/ LoopTest
    \/ RunAcquire
    \/ RunRead
    \/ RunClear
    \/ RunRelease
    \/ SkipSleep
    \/ TestMsg
    \/ DetectCall
    \/ DetectReturn
    \/ BuildResult
    \/ PublishResult
    \/ TestVisualization
    \/ Visualize
    \/ PublishVis
    \/ RateSleep

CallbackNext ==
    \/ CallbackAcquire
    \/ CallbackStore
    \/ CallbackRelease

FairSpec == Spec /\ WF_vars(RunNext) /\ WF_vars(CallbackNext)

(***************************************************************************)
(* The result builder on its own: the state right after model.detect has   *)
(* returned for the first frame (run is at line 99), with the Detection    *)
(* Set drawn from a wider set than the scheduler model uses, followed by   *)
(* the build and the publish of lines 99-100.                              *)
(***************************************************************************)
\* class ids the builder is given: every index into the table, the first
\* index past its end, and the negative indexes down to the first one below
\* -len (Python accepts -len..-1)
ClassIdRange == (0 - Len(class_names) - 1)..Len(class_names)

\* rois <<y1, x1, y2, x2>> inside the frame, with distinct offsets and sizes
BuilderBoxes == {<<0, 1, ImgH, ImgW>>, <<1, 0, ImgH, ImgW>>}
BoxOf(b, i) == IF i % 2 = 1 THEN b ELSE <<0, 0, b[3], b[4]>>

\* scores in percent; instance i gets base - i
BuilderScores == {95, 50}

\* masks: seed 0 is the empty mask, seed ImgH*ImgW+1 the full one, any other
\* seed k a single foreground pixel, at row-major position k for the first
\* instance and one position further for each following instance
MaskSeeds == 0..(ImgH * ImgW + 1)
Foreground(k, i, r, c) ==
    IF k = 0 THEN FALSE
    ELSE IF k = ImgH * ImgW + 1 THEN TRUE
    ELSE (r - 1) * ImgW + c = ((k + i - 2) % (ImgH * ImgW)) + 1

BuilderDetection(ids, b, s, k) ==
    [rois      |-> [i \in 1..Len(ids) |-> BoxOf(b, i)],
     class_ids |-> ids,
     scores    |-> [i \in 1..Len(ids) |-> s - i],
     masks     |-> [r \in 1..ImgH |-> [c \in 1..ImgW |->
                      [i \in 1..Len(ids) |-> Foreground(k, i, r, c)]]]]

BuilderDetectionSets ==
    {BuilderDetection(ids, b, s, k) :
        ids \in SeqsUpTo(ClassIdRange, MaxInstances),
        b \in BuilderBoxes, s \in BuilderScores, k \in MaskSeeds}

BuilderInit ==
    /\ last_msg = None
    /\ msg_lock = "free"
    /\ visualization \in BOOLEAN
    /\ shutdown = FALSE
    /\ callback_pc = "idle"
    /\ callback_msg = None
    /\ run_pc = "build"
    /\ msg = Ref(Frame(1))
    /\ result \in {Ref(d) : d \in BuilderDetectionSets}
    /\ result_msg = None
    /\ exception = "none"
    /\ result_pub = None
    /\ vis_pub = None
    /\ arrived = 1
    /\ deposited = <<1>>
    /\ unclaimed = <<>>
    /\ superseded = {}
    /\ dropped = {}
    /\ claim_base = 1
    /\ claimed = <<1>>
    /\ in_flight = {}
    /\ inferred = <<1>>
    /\ published = <<>>
    /\ tick_infer = 1
    /\ tick_results = 0
    /\ skipped = FALSE

BuilderNext ==
    \/ BuildResult
    \/ PublishResult

BuilderSpec == BuilderInit /\ [][BuilderNext]_vars

(***************************************************************************)
(* Types                                                                   *)
(***************************************************************************)
RunPcs == {"loop", "acquire", "read", "clear", "release", "skip_sleep",
           "test_msg", "detect", "detecting", "build", "publish_result",
           "test_visualization", "visualize", "publish_vis", "sleep", "done",
           "raised"}

TypeOK ==
    /\ last_msg \in {None} \cup {Ref(Frame(h)) : h \in Headers}
    /\ msg_lock \in {"free", "callback", "run"}
    /\ visualization \in BOOLEAN
    /\ shutdown \in BOOLEAN
    /\ callback_pc \in {"idle", "acquire", "store", "release"}
    /\ run_pc \in RunPcs
    /\ msg \in {None} \cup {Ref(Frame(h)) : h \in Headers}
    /\ result \in {None} \cup {Ref(d) : d \in DetectionSets}
    /\ exception \in {"none", "IndexError", "PublishError"}
    /\ arrived \in 0..MaxFrames

(***************************************************************************)
(* Properties                                                              *)
(***************************************************************************)
NoDuplicates(seq) ==
    \A i, j \in 1..Len(seq) : i # j => seq[i] # seq[j]

\* headers of the Result Records published so far, in publication order
IsResult(p) == p[1] = "result"
ResultHeaders ==
    LET rs == SelectSeq(published, IsResult)
    IN  [i \in 1..Len(rs) |-> rs[i][2]]

Range(seq) == {seq[i] : i \in 1..Len(seq)}

\* run has not been ended by an uncaught exception
LoopAlive == run_pc # "raised"

\* a Detection Set with an instance whose class id is >= the table length
BadClassIdAt(det, i) == det.class_ids[i] >= Len(class_names)
HasBadClassId(det) == \E i \in 1..NumInstances(det) : BadClassIdAt(det, i)

\* C1: a claim that returns a frame returns the most recent frame whose
\* deposit succeeded before the claim began (took the lock), never an older
\* or any other one.  msg is the claim's return value from the read on.
C1_ClaimReturnsLatestDeposit ==
    (run_pc # "read" /\ msg # None) =>
        /\ claim_base >= 1
        /\ Deref(msg).header = deposited[claim_base]

\* a second claim returns a frame, after at least two successful deposits
C1_Witness ==
    /\ run_pc = "clear"
    /\ msg # None
    /\ claim_base >= 2
    /\ Len(claimed) = 2

\* C2: after N >= 1 deposits with no claim in between, the claim returns
\* exactly the last of them, and none of the N-1 earlier frames is returned
\* by any claim or appears in any published Result Record.
C2_LastWriteWins ==
    /\ (run_pc = "clear" /\ unclaimed # <<>>) =>
          /\ msg # None
          /\ Deref(msg).header = unclaimed[Len(unclaimed)]
    /\ Range(claimed) \cap superseded = {}
    /\ Range(ResultHeaders) \cap superseded = {}
    /\ result_pub # None => Deref(result_pub).header \notin superseded

\* a claim after two deposits with no claim in between
C2_Witness ==
    /\ run_pc = "clear"
    /\ Len(unclaimed) >= 2
    /\ msg # None

\* C3: every loop iteration runs at most one inference and publishes at
\* most one Result Record, and no frame is inferred on or published twice.
C3_OneFramePerTick ==
    /\ tick_infer <= 1
    /\ tick_results <= 1
    /\ NoDuplicates(inferred)
    /\ NoDuplicates(ResultHeaders)

\* the second processed frame has been published and the next frame is
\* already waiting in the mailbox
C3_Witness ==
    /\ run_pc = "sleep"
    /\ tick_results = 1
    /\ Len(ResultHeaders) >= 2
    /\ last_msg # None

\* C4: at most one inference is in flight, and while one is in flight run is
\* inside model.detect: it claims, builds and publishes nothing.
C4_OneInferenceInFlight ==
    /\ Cardinality(in_flight) <= 1
    /\ in_flight # {} => run_pc = "detecting"

\* two more frames were deposited while an inference is in flight
C4_Witness ==
    /\ in_flight # {}
    /\ Len(deposited) >= Len(inferred) + 2

\* C5: the mailbox never holds more than one frame.
C5_MailboxHoldsAtMostOne == Len(last_msg) <= 1

\* every frame of the run was deposited, none was claimed, one is held
C5_Witness ==
    /\ Len(unclaimed) = MaxFrames
    /\ Len(last_msg) = 1

\* C6: a deposit attempted while run holds the lock returns at once and
\* leaves the mailbox as it was, and the dropped frame is never returned by
\* a claim; a deposit attempted while the lock is free takes the lock and
\* its store overwrites the slot with the new frame.
C6_DepositStep ==
    /\ (callback_pc = "acquire" /\ callback_pc' # "acquire" /\ msg_lock = "run") =>
          /\ callback_pc' = "idle"
          /\ last_msg' = last_msg
          /\ msg_lock' = msg_lock
          /\ deposited' = deposited
    /\ (callback_pc = "acquire" /\ callback_pc' # "acquire" /\ msg_lock = "free") =>
          /\ callback_pc' = "store"
          /\ msg_lock' = "callback"
    /\ (callback_pc = "store" /\ callback_pc' # "store") =>
          /\ last_msg' = callback_msg
          /\ callback_pc' = "release"

C6_Deposit ==
    /\ [][C6_DepositStep]_vars
    /\ [](dropped \cap Range(claimed) = {})
    /\ [](dropped \cap Range(deposited) = {})

\* one deposit was dropped on contention, another overwrote a waiting frame
C6_Witness ==
    /\ dropped # {}
    /\ superseded # {}
    /\ claimed # <<>>

\* C7: a claim attempted while the callback holds the lock does not wait:
\* the iteration goes to its sleep and back to the loop test, runs no
\* inference, publishes nothing and leaves the mailbox as it was.
C7_ClaimStep ==
    /\ (run_pc = "acquire" /\ run_pc' # "acquire" /\ msg_lock = "callback") =>
          /\ run_pc' = "skip_sleep"
          /\ last_msg' = last_msg
          /\ msg_lock' = msg_lock
          /\ msg' = msg
    /\ (run_pc = "skip_sleep" /\ run_pc' # "skip_sleep") =>
          /\ run_pc' = "loop"
          /\ last_msg' = last_msg
    /\ skipped =>
          /\ inferred' = inferred
          /\ published' = published
          /\ claimed' = claimed

C7_ContendedClaim ==
    /\ [][C7_ClaimStep]_vars
    /\ [](skipped => (tick_infer = 0 /\ tick_results = 0
                      /\ run_pc \in {"skip_sleep", "loop"}))

\* the claim failed while the callback was overwriting a waiting frame
C7_Witness ==
    /\ skipped
    /\ run_pc = "skip_sleep"
    /\ last_msg # None
    /\ msg_lock = "callback"

\* C8 (as claimed): a Result Builder failure does not end the loop.
C8_BuilderFailureNonFatal == exception = "IndexError" => LoopAlive

\* C9: a Detection Set with a class id >= the table length at any index
\* makes the builder raise, and no Result Record is published for that
\* frame; every published record is complete, with valid class ids only.
C9_NoPartialRecord ==
    /\ (result # None /\ HasBadClassId(Deref(result))) =>
          /\ run_pc \in {"build", "raised"}
          /\ run_pc = "raised" => exception = "IndexError"
          /\ Deref(msg).header \notin Range(ResultHeaders)
          /\ result_pub # None => Deref(result_pub).header # Deref(msg).header
    /\ result_pub # None =>
          LET p == Deref(result_pub)
          IN  /\ Len(p.class_ids) = Len(p.boxes)
              /\ Len(p.class_names) = Len(p.boxes)
              /\ Len(p.scores) = Len(p.boxes)
              /\ Len(p.masks) = Len(p.boxes)
              /\ \A i \in 1..Len(p.class_ids) : p.class_ids[i] < Len(class_names)

\* the builder raised on a bad class id at the second index, after a good
\* first instance, and an earlier frame had been published
C9_Witness ==
    /\ run_pc = "raised"
    /\ exception = "IndexError"
    /\ NumInstances(Deref(result)) >= 2
    /\ ~BadClassIdAt(Deref(result), 1)
    /\ BadClassIdAt(Deref(result), 2)
    /\ Len(ResultHeaders) >= 1

\* C10 (as claimed): a failed publish does not end the loop.
C10_PublishFailureNonFatal == exception = "PublishError" => LoopAlive

(***************************************************************************)
(* Properties of the result builder, checked under BuilderSpec             *)
(***************************************************************************)
\* the builder has returned a record for the Detection Set in result
Built == run_pc \in {"publish_result", "test_visualization"}

\* every class id indexes the table from the front
WellFormed(det) ==
    \A i \in 1..NumInstances(det) :
        det.class_ids[i] \in 0..(Len(class_names) - 1)

\* C11: for a well-formed Detection Set with N instances the builder
\* returns a record with N boxes, class ids, class names, scores and masks,
\* where entry i has x_offset = left, y_offset = top, width = right - left,
\* height = bottom - top of box i, the class id and the score of instance i
\* and the table entry at that class id; box (10,20,50,60) with class 1
\* gives region (20,10,40,40) and the name person.
C11_BuilderFields ==
    /\ RegionOfInterest(<<10, 20, 50, 60>>) =
          [x_offset |-> 20, y_offset |-> 10, width |-> 40, height |-> 40]
    /\ ListItem(class_names, 1) = "person"
    /\ (result # None /\ WellFormed(Deref(result))) => exception # "IndexError"
    /\ (Built /\ WellFormed(Deref(result))) =>
          LET d == Deref(result)
              r == Deref(result_msg)
              N == NumInstances(d)
          IN  /\ Len(r.boxes) = N
              /\ Len(r.class_ids) = N
              /\ Len(r.class_names) = N
              /\ Len(r.scores) = N
              /\ Len(r.masks) = N
              /\ \A i \in 1..N :
                    /\ r.boxes[i].x_offset = d.rois[i][2]
                    /\ r.boxes[i].y_offset = d.rois[i][1]
                    /\ r.boxes[i].width = d.rois[i][4] - d.rois[i][2]
                    /\ r.boxes[i].height = d.rois[i][3] - d.rois[i][1]
                    /\ r.class_ids[i] = d.class_ids[i]
                    /\ r.class_names[i] = class_names[d.class_ids[i] + 1]
                    /\ r.scores[i] = d.scores[i]

\* a record was built from two instances of different classes and boxes
C11_Witness ==
    /\ Built
    /\ NumInstances(Deref(result)) >= 2
    /\ Deref(result).class_ids[1] = 1
    /\ Deref(result).class_ids[2] = 2
    /\ Deref(result).rois[1] # Deref(result).rois[2]
    /\ Len(Deref(result_msg).class_names) = 2

\* C12: the raster of instance i has length H*W, and its element at the
\* row-major position r*W + c (counted from 0) is the class id of instance
\* i where mask[r][c][i] is true and 0 elsewhere.
C12_RasterRowMajor ==
    Built =>
        LET d == Deref(result)
            r == Deref(result_msg)
        IN  \A i \in 1..NumInstances(d) :
              /\ Len(r.masks[i]) = ImgH * ImgW
              /\ \A row \in 0..(ImgH - 1), col \in 0..(ImgW - 1) :
                    r.masks[i][row * ImgW + col + 1] =
                        IF d.masks[row + 1][col + 1][i] THEN d.class_ids[i] ELSE 0

\* a record was built whose first mask has its only foreground pixel off the
\* diagonal, in the first row
C12_Witness ==
    /\ Built
    /\ NumInstances(Deref(result)) >= 2
    /\ Deref(result).masks[1][2][1]
    /\ ~Deref(result).masks[2][1][1]
    /\ Deref(result).class_ids[1] # 0

\* reading a raster back: reshape to (H, W), non-zero is foreground
Reshape(data, H, W) ==
    [r \in 1..H |-> [c \in 1..W |-> data[(r - 1) * W + c] # 0]]

\* mask[:,:,i] of a Detection Set
MaskOf(det, i) ==
    [r \in 1..ImgH |-> [c \in 1..ImgW |-> det.masks[r][c][i]]]

\* C13 (as claimed): for every instance of every Detection Set the builder
\* accepts, the raster read back is the original mask.
C13_RoundTripEveryInstance ==
    Built =>
        \A i \in 1..NumInstances(Deref(result)) :
            Reshape(Deref(result_msg).masks[i], ImgH, ImgW) = MaskOf(Deref(result), i)

\* C13 (amended): the raster read back is the original mask for every
\* instance whose class id is not 0.
C13_RoundTripNonZeroClass ==
    Built =>
        \A i \in 1..NumInstances(Deref(result)) :
            Deref(result).class_ids[i] # 0 =>
                Reshape(Deref(result_msg).masks[i], ImgH, ImgW) = MaskOf(Deref(result), i)

\* a record was built from an instance of a non-zero class whose mask has
\* both foreground and background pixels
C13_Witness ==
    /\ Built
    /\ NumInstances(Deref(result)) >= 1
    /\ Deref(result).class_ids[1] # 0
    /\ \E r1, r2 \in 1..ImgH, c1, c2 \in 1..ImgW :
          /\ Deref(result).masks[r1][c1][1]
          /\ ~Deref(result).masks[r2][c2][1]

\* C17 (as claimed): a class id outside 0..len-1, negative ones included,
\* makes the builder raise; no record is built from it.
C17_OutOfRangeRaises ==
    (result # None /\ ~WellFormed(Deref(result)) /\ run_pc # "build") =>
        exception = "IndexError"

(***************************************************************************)
(* Further properties of the scheduler, checked under Spec                 *)
(***************************************************************************)
Last(seq) == seq[Len(seq)]

\* run is between the call of model.detect and the end of the iteration
\* that claimed msg
Processing ==
    run_pc \in {"detecting", "build", "publish_result", "test_visualization",
                "visualize", "publish_vis"}

\* C14: every published Result Record carries the header of the frame that
\* was claimed in the same iteration and given to model.detect, never that
\* of a frame deposited since.
C14_HeaderOfClaimedFrame ==
    /\ Processing =>
          /\ Deref(msg).header = Last(claimed)
          /\ Deref(msg).header = Last(inferred)
          /\ Deref(msg).header = deposited[claim_base]
    /\ run_pc = "publish_result" =>
          Deref(result_msg).header = Deref(msg).header
    /\ run_pc = "test_visualization" =>
          /\ Deref(result_pub).header = Deref(msg).header
          /\ Last(published) = <<"result", Deref(msg).header>>
    /\ Range(ResultHeaders) \subseteq Range(inferred)
    /\ result_pub # None => Deref(result_pub).header = Last(ResultHeaders)

\* a record has just been published while a frame deposited after its claim
\* is waiting in the mailbox
C14_Witness ==
    /\ run_pc = "test_visualization"
    /\ last_msg # None
    /\ Len(deposited) > claim_base
    /\ Deref(result_pub).header = deposited[claim_base]

\* number of messages published on a topic for the frame with header h
Count(topic, h) ==
    Cardinality({k \in 1..Len(published) : published[k] = <<topic, h>>})

\* C15: an iteration that processed a frame to its end has published exactly
\* one Result Record, and a visualization image if and only if
\* visualization is enabled, the image right after the record; an iteration
\* that claimed no frame publishes nothing.
C15_TickEnd ==
    /\ (run_pc = "sleep" /\ tick_infer = 1) =>
          /\ tick_results = 1
          /\ Count("result", Deref(msg).header) = 1
          /\ Count("visualization", Deref(msg).header) =
                (IF visualization THEN 1 ELSE 0)
          /\ Last(published) =
                <<(IF visualization THEN "visualization" ELSE "result"),
                  Deref(msg).header>>
    /\ \A k \in 1..Len(published) :
          published[k][1] = "visualization" =>
              /\ visualization
              /\ k > 1
              /\ published[k - 1] = <<"result", published[k][2]>>
    /\ tick_infer = 0 => tick_results = 0

C15_PublishStep ==
    published' # published => (tick_infer = 1 /\ tick_infer' = 1)

C15_PublishesPerTick ==
    /\ []C15_TickEnd
    /\ [][C15_PublishStep]_vars

\* the second processed frame reaches the end of its iteration with both
\* messages published
C15_Witness ==
    /\ run_pc = "sleep"
    /\ tick_infer = 1
    /\ visualization
    /\ Len(published) = 4
    /\ Len(claimed) = 2

\* C18: run holds the lock only from its acquire to its release around the
\* read-and-clear, never while it infers, builds, publishes or sleeps; so
\* a deposit attempted during an inference takes the lock and stores its
\* frame, and a claim that returns a frame returns the newest one stored.
C18_LockStep ==
    (callback_pc = "acquire" /\ callback_pc' # "acquire" /\ in_flight # {}) =>
        /\ callback_pc' = "store"
        /\ msg_lock' = "callback"

C18_LockScope ==
    /\ msg_lock = "run" => run_pc \in {"read", "clear", "release"}
    /\ in_flight # {} => msg_lock # "run"
    /\ (run_pc \in {"clear", "release"} /\ msg # None) =>
          Deref(msg).header = Last(deposited)

C18_LockOnlyAroundClaim ==
    /\ [][C18_LockStep]_vars
    /\ []C18_LockScope

\* a deposit has stored its frame while an inference is in flight, over a
\* frame stored earlier during the same inference
C18_Witness ==
    /\ in_flight # {}
    /\ callback_pc = "release"
    /\ last_msg = callback_msg
    /\ Len(unclaimed) >= 2

StrictlyIncreasing(seq) ==
    \A i, j \in 1..Len(seq) : i < j => seq[i] < seq[j]

\* C19: the headers of the published Result Records, in publication order,
\* are strictly increasing in arrival order, and each is the header of a
\* frame that was deposited.
C19_PublishedInArrivalOrder ==
    /\ StrictlyIncreasing(ResultHeaders)
    /\ Range(ResultHeaders) \subseteq Range(deposited)
    /\ Range(deposited) \subseteq 1..arrived

\* two records are published and a frame that arrived between them was
\* overwritten in the mailbox
C19_Witness ==
    /\ Len(ResultHeaders) >= 2
    /\ \E h \in superseded : ResultHeaders[1] < h /\ h < ResultHeaders[2]

(***************************************************************************)
(* Termination and progress, checked under FairSpec                        *)
(***************************************************************************)
\* run has returned or has been left by an exception
Terminated == run_pc \in {"done", "raised"}

\* C16: once the shutdown signal is raised the loop terminates; run reads
\* the signal only in the loop test of line 84, an inference in flight when
\* it is raised is left to return and its record is published before run
\* ends, and after run has ended nothing is claimed, inferred or published.
C16_ShutdownStep ==
    /\ (run_pc # "done" /\ run_pc' = "done") => (run_pc = "loop" /\ shutdown)
    /\ (~shutdown /\ shutdown') =>
          (run_pc' = run_pc /\ in_flight' = in_flight /\ msg' = msg)
    /\ (in_flight # {} /\ in_flight' = {}) => run_pc' = "build"
    /\ run_pc = "done" =>
          /\ run_pc' = "done"
          /\ claimed' = claimed
          /\ inferred' = inferred
          /\ published' = published

C16_Done ==
    run_pc = "done" =>
        /\ shutdown
        /\ in_flight = {}
        /\ msg_lock # "run"
        /\ Range(inferred) \subseteq Range(ResultHeaders)

C16_ShutdownTerminates ==
    /\ [][C16_ShutdownStep]_vars
    /\ []C16_Done
    /\ (shutdown ~> Terminated)

\* run has ended on the shutdown signal after publishing the record of the
\* one frame it claimed; a later frame is left unclaimed in the mailbox
C16_Witness ==
    /\ run_pc = "done"
    /\ Len(ResultHeaders) >= 1
    /\ last_msg # None
    /\ Len(claimed) = 1

\* the frame with header h is the last one deposited
LastDeposited(h) == deposited # <<>> /\ Last(deposited) = h

====
